---- MODULE Spec2Model ----
(***************************************************************************)
(* Post-processing core of api/upload.py: bounding-box geometry            *)
(* (calculate_iou, apply_padding_to_bbox), label parsing                   *)
(* (get_class_number), the class-priority suppressor (apply_nms) and the   *)
(* metrics (calculate_follicular_metrics, calculate_combined_metrics, the  *)
(* upload handler's thickness_metrics).                                    *)
(*                                                                         *)
(* Numbers.  Python floats are modelled by exact fixed-point integers:     *)
(* a coordinate, a padding factor or an IoU threshold x is the integer     *)
(* x * One.  Every input is a multiple of One/2 (coordinates, padding) or  *)
(* One/4 (threshold), so each product and quotient of the padding          *)
(* arithmetic is an integer and the model computes what binary floating    *)
(* point computes on these dyadic values.  An IoU is the fraction          *)
(* <<num, den>> in lowest terms with den > 0.  A confidence c is the       *)
(* integer 100 * c.  The floats of the metrics are fractions <<num, den>>   *)
(* too, computed exactly; the lists given to the metrics are ones on which *)
(* the exact results and the floats of the code agree.  The caliber index  *)
(* alone is computed in binary floating point, as its truncation needs.    *)
(*                                                                         *)
(* Strings are tuples of one-character strings, so that lower(),           *)
(* startswith(), replace() and int() are computed, not assumed.            *)
(***************************************************************************)
EXTENDS Integers, Sequences, FiniteSets, TLC

VARIABLES
    pc,                    \* position of the running call
    fn, args, ret,         \* a call of one of the pure helpers and its value
    locals,                \* the local variables of that call when it returns
    predictions,           \* apply_nms: the argument list
    iou_threshold,         \* apply_nms: argument
    padding_factor,        \* apply_nms: argument
    max_predictions,       \* apply_nms: argument
    sorted_predictions,    \* apply_nms: local
    filtered_predictions,  \* apply_nms: local
    i,                     \* apply_nms: index of the candidate of the outer loop
    result                 \* apply_nms: the returned list

vars == <<pc, fn, args, ret, locals, predictions, iou_threshold, padding_factor,
          max_predictions, sorted_predictions, filtered_predictions, i, result>>

nmsVars == <<predictions, iou_threshold, padding_factor, max_predictions,
             sorted_predictions, filtered_predictions, i, result>>

pureVars == <<fn, args, ret, locals>>

---------------------------------------------------------------------------
(* Bounds of the model. *)

MaxLen == 2        \* longest detection list handed to apply_nms
MaxPredBound == 2  \* largest max_predictions
MaxCoord == 3      \* largest box coordinate, in half units (3 is 1.5)

(* The float 1.0 in fixed-point units. *)
One == 16

Min(a, b) == IF a < b THEN a ELSE b
Max(a, b) == IF a > b THEN a ELSE b

---------------------------------------------------------------------------
(* Fractions: the value of a float division n / d. *)

RECURSIVE GCD(_, _)
GCD(a, b) == IF b = 0 THEN a ELSE GCD(b, a % b)

Abs(a) == IF a < 0 THEN -a ELSE a

\* Raised by n / 0.
ZeroDivisionError == <<0, 0>>

Zero == <<0, 1>>

Frac(n, d) ==
    IF d = 0 THEN ZeroDivisionError
    ELSE LET g == GCD(Abs(n), Abs(d))
             s == IF d < 0 THEN -1 ELSE 1
         IN  <<(s * n) \div g, (s * d) \div g>>

FracGT_OrEqual(q, t) == q[1] * One >= t * q[2]

\* q > t for a fraction q and a fixed-point number t.
FracGT(q, t) == q[1] * One > t * q[2]

\* q <= t likewise.
FracLE(q, t) == q[1] * One <= t * q[2]

---------------------------------------------------------------------------
(* Geometry.  A box is <<xMin, xMax, yMin, yMax>>. *)

\* (x_right - x_left) * (y_bottom - y_top)
intersection_area(box1, box2) ==
    LET x_left == Max(box1[1], box2[1])
        y_top == Max(box1[3], box2[3])
        x_right == Min(box1[2], box2[2])
        y_bottom == Min(box1[4], box2[4])
    IN  (x_right - x_left) * (y_bottom - y_top)

union_area_Box1Twice(box1, box2) ==
    LET box1_area == (box1[2] - box1[1]) * (box1[4] - box1[3])
    IN  box1_area + box1_area - intersection_area(box1, box2)

union_area_NoSubtract(box1, box2) ==
    LET box1_area == (box1[2] - box1[1]) * (box1[4] - box1[3])
        box2_area == (box2[2] - box2[1]) * (box2[4] - box2[3])
    IN  box1_area + box2_area

\* box1_area + box2_area - intersection_area
union_area(box1, box2) ==
    LET box1_area == (box1[2] - box1[1]) * (box1[4] - box1[3])
        box2_area == (box2[2] - box2[1]) * (box2[4] - box2[3])
    IN  box1_area + box2_area - intersection_area(box1, box2)

calculate_iou_NoDisjointReturn(box1, box2) ==
    IF union_area(box1, box2) = 0 THEN Zero
    ELSE Frac(intersection_area(box1, box2), union_area(box1, box2))

calculate_iou_NoZeroGuard(box1, box2) ==
    LET x1_min == box1[1]
        x1_max == box1[2]
        y1_min == box1[3]
        y1_max == box1[4]
        x2_min == box2[1]
        x2_max == box2[2]
        y2_min == box2[3]
        y2_max == box2[4]
        x_left == Max(x1_min, x2_min)
        y_top == Max(y1_min, y2_min)
        x_right == Min(x1_max, x2_max)
        y_bottom == Min(y1_max, y2_max)
    IN  IF x_right < x_left \/ y_bottom < y_top THEN Zero
        ELSE Frac(intersection_area(box1, box2), union_area(box1, box2))

calculate_iou(box1, box2) ==
    LET x1_min == box1[1]
        x1_max == box1[2]
        y1_min == box1[3]
        y1_max == box1[4]
        x2_min == box2[1]
        x2_max == box2[2]
        y2_min == box2[3]
        y2_max == box2[4]
        x_left == Max(x1_min, x2_min)
        y_top == Max(y1_min, y2_min)
        x_right == Min(x1_max, x2_max)
        y_bottom == Min(y1_max, y2_max)
    IN  IF x_right < x_left \/ y_bottom < y_top THEN Zero
        ELSE IF union_area(box1, box2) = 0 THEN Zero
        ELSE Frac(intersection_area(box1, box2), union_area(box1, box2))

apply_padding_to_bbox_NoEarlyReturn(bbox, padding) ==
    LET x_min == bbox[1]
        x_max == bbox[2]
        y_min == bbox[3]
        y_max == bbox[4]
        center_x == (x_min + x_max) \div 2
        center_y == (y_min + y_max) \div 2
        width == x_max - x_min
        height == y_max - y_min
        new_width == (width * (One + padding)) \div One
        new_height == (height * (One + padding)) \div One
        new_x_min == Max(0, center_x - new_width \div 2)
        new_x_max == Min(One, center_x + new_width \div 2)
        new_y_min == Max(0, center_y - new_height \div 2)
        new_y_max == Min(One, center_y + new_height \div 2)
    IN  <<new_x_min, new_x_max, new_y_min, new_y_max>>

apply_padding_to_bbox_NoUpperClamp(bbox, padding) ==
    IF padding = 0 THEN bbox
    ELSE
    LET x_min == bbox[1]
        x_max == bbox[2]
        y_min == bbox[3]
        y_max == bbox[4]
        center_x == (x_min + x_max) \div 2
        center_y == (y_min + y_max) \div 2
        width == x_max - x_min
        height == y_max - y_min
        new_width == (width * (One + padding)) \div One
        new_height == (height * (One + padding)) \div One
        new_x_min == Max(0, center_x - new_width \div 2)
        new_x_max == center_x + new_width \div 2
        new_y_min == Max(0, center_y - new_height \div 2)
        new_y_max == center_y + new_height \div 2
    IN  <<new_x_min, new_x_max, new_y_min, new_y_max>>

apply_padding_to_bbox(bbox, padding) ==
    IF padding = 0 THEN bbox
    ELSE
    LET x_min == bbox[1]
        x_max == bbox[2]
        y_min == bbox[3]
        y_max == bbox[4]
        center_x == (x_min + x_max) \div 2
        center_y == (y_min + y_max) \div 2
        width == x_max - x_min
        height == y_max - y_min
        new_width == (width * (One + padding)) \div One
        new_height == (height * (One + padding)) \div One
        new_x_min == Max(0, center_x - new_width \div 2)
        new_x_max == Min(One, center_x + new_width \div 2)
        new_y_min == Max(0, center_y - new_height \div 2)
        new_y_max == Min(One, center_y + new_height \div 2)
    IN  <<new_x_min, new_x_max, new_y_min, new_y_max>>

---------------------------------------------------------------------------
(* Strings. *)

Digits == <<"0", "1", "2", "3", "4", "5", "6", "7", "8", "9">>

IsDigit(c) == \E d \in 1..10 : Digits[d] = c

DigitVal(c) == (CHOOSE d \in 1..10 : Digits[d] = c) - 1

Upper == <<"A", "C", "L", "M", "S", "U", "W">>
LowerOf == <<"a", "c", "l", "m", "s", "u", "w">>

\* str.lower()
lower(s) ==
    [k \in 1..Len(s) |->
        IF \E u \in 1..Len(Upper) : Upper[u] = s[k]
        THEN LowerOf[CHOOSE u \in 1..Len(Upper) : Upper[u] = s[k]]
        ELSE s[k]]

\* str.startswith(prefix)
startswith(s, prefix) ==
    /\ Len(s) >= Len(prefix)
    /\ SubSeq(s, 1, Len(prefix)) = prefix

\* str.replace(old, ''): every occurrence of old, left to right, is dropped.
RECURSIVE replace(_, _)
replace(s, old) ==
    IF s = <<>> THEN <<>>
    ELSE IF startswith(s, old) THEN replace(SubSeq(s, Len(old) + 1, Len(s)), old)
    ELSE <<Head(s)>> \o replace(Tail(s), old)

RECURSIVE strip(_)
strip(s) ==
    IF s = <<>> THEN s
    ELSE IF Head(s) = " " THEN strip(Tail(s))
    ELSE IF s[Len(s)] = " " THEN strip(SubSeq(s, 1, Len(s) - 1))
    ELSE s

RECURSIVE DecimalValue(_)
DecimalValue(s) ==
    IF s = <<>> THEN 0
    ELSE 10 * DecimalValue(SubSeq(s, 1, Len(s) - 1)) + DigitVal(s[Len(s)])

\* int(s): [ok |-> TRUE, value |-> n], or ok = FALSE when int raises ValueError.
int(s) ==
    LET t == strip(s)
        signed == t # <<>> /\ Head(t) \in {"+", "-"}
        body == IF signed THEN Tail(t) ELSE t
    IN  IF body # <<>> /\ \A k \in 1..Len(body) : IsDigit(body[k])
        THEN [ok |-> TRUE,
              value |-> IF signed /\ Head(t) = "-" THEN -DecimalValue(body)
                        ELSE DecimalValue(body)]
        ELSE [ok |-> FALSE, value |-> 0]

class == <<"c", "l", "a", "s", "s">>

get_class_number(class_name) ==
    IF startswith(lower(class_name), class)
    THEN LET n == int(replace(lower(class_name), class))
         IN  IF n.ok THEN n.value ELSE 0
    ELSE 0

---------------------------------------------------------------------------
(* Detections: Python dicts, modelled as records that may lack a key. *)

\* dict.get(key, default)
Get(pred, key, default) == IF key \in DOMAIN pred THEN pred[key] ELSE default

Unknown == <<"U", "n", "k", "n", "o", "w", "n">>

DisplayName(pred) == Get(pred, "displayName", Unknown)

Confidence(pred) == Get(pred, "confidence", 0)

Bbox(pred) == Get(pred, "bbox", <<0, 0, 0, 0>>)

\* The key function of sorted(): (-class_num, -confidence).
sort_key(pred) ==
    LET class_name == Get(pred, "displayName", Unknown)
        class_num ==
            IF startswith(lower(class_name), class)
            THEN LET n == int(replace(lower(class_name), class))
                 IN  IF n.ok THEN n.value ELSE 0
            ELSE 0
        confidence == Get(pred, "confidence", 0)
    IN  <<-class_num, -confidence>>

\* Python's order on 2-tuples.
TupleLess(k1, k2) == k1[1] < k2[1] \/ (k1[1] = k2[1] /\ k1[2] < k2[2])

InsertStable_BeforeEquals(acc, x) ==
    LET pos == Cardinality({k \in 1..Len(acc) :
                               TupleLess(sort_key(acc[k]), sort_key(x))})
    IN  SubSeq(acc, 1, pos) \o <<x>> \o SubSeq(acc, pos + 1, Len(acc))

\* x placed behind every element whose key is not greater than its own.
InsertStable(acc, x) ==
    LET pos == Cardinality({k \in 1..Len(acc) :
                               ~TupleLess(sort_key(x), sort_key(acc[k]))})
    IN  SubSeq(acc, 1, pos) \o <<x>> \o SubSeq(acc, pos + 1, Len(acc))

sorted_InputOrder(seq) == seq

\* sorted(predictions, key=sort_key): ascending in the key, stable.
RECURSIVE sorted(_)
sorted(seq) ==
    IF seq = <<>> THEN <<>>
    ELSE InsertStable(sorted(SubSeq(seq, 1, Len(seq) - 1)), seq[Len(seq)])

\* list.remove(x): the first element equal to x is dropped.
RECURSIVE remove(_, _)
remove(seq, x) ==
    IF seq = <<>> THEN <<>>
    ELSE IF Head(seq) = x THEN Tail(seq)
    ELSE <<Head(seq)>> \o remove(Tail(seq), x)

padded_iou_Unpadded(bbox1, bbox2, padding) == calculate_iou(bbox1, bbox2)

\* The IoU of the two boxes after padding both.
padded_iou(bbox1, bbox2, padding) ==
    calculate_iou(apply_padding_to_bbox(bbox1, padding),
                  apply_padding_to_bbox(bbox2, padding))

\* The inner loop of apply_nms from the j-th selected prediction on:
\* whether pred is kept, the selected list after it, whether it raised.
RECURSIVE CheckSelected(_, _, _, _, _)
CheckSelected(filtered, j, pred, threshold, padding) ==
    IF j > Len(filtered)
    THEN [should_keep |-> TRUE, filtered |-> filtered, raised |-> FALSE]
    ELSE LET selected_pred == filtered[j]
             bbox1 == Get(pred, "bbox", <<0, 0, 0, 0>>)
             class_name1 == Get(pred, "displayName", Unknown)
             bbox2 == Get(selected_pred, "bbox", <<0, 0, 0, 0>>)
             class_name2 == Get(selected_pred, "displayName", Unknown)
             iou == padded_iou(bbox1, bbox2, padding)
         IN  IF iou = ZeroDivisionError
             THEN [should_keep |-> FALSE, filtered |-> filtered, raised |-> TRUE]
             ELSE IF FracGT(iou, threshold)
             THEN IF get_class_number(class_name1) > get_class_number(class_name2)
                  THEN [should_keep |-> TRUE,
                        filtered |-> remove(filtered, selected_pred),
                        raised |-> FALSE]
                  ELSE [should_keep |-> FALSE, filtered |-> filtered,
                        raised |-> FALSE]
             ELSE CheckSelected(filtered, j + 1, pred, threshold, padding)

Truncate_Unlimited(filtered, limit) == filtered

\* filtered[:limit] when the list is longer than limit.
Truncate(filtered, limit) ==
    IF Len(filtered) > limit
    THEN IF limit >= 0 THEN SubSeq(filtered, 1, limit)
         ELSE SubSeq(filtered, 1, Max(Len(filtered) + limit, 0))
    ELSE filtered

\* The outer loop of apply_nms from the k-th sorted prediction on: the
\* selected list at its end.
RECURSIVE Scan(_, _, _, _, _)
Scan(sorted_preds, k, filtered, threshold, padding) ==
    IF k > Len(sorted_preds) THEN filtered
    ELSE LET r == CheckSelected(filtered, 1, sorted_preds[k], threshold, padding)
         IN  Scan(sorted_preds, k + 1,
                  IF r.should_keep THEN Append(r.filtered, sorted_preds[k])
                  ELSE r.filtered,
                  threshold, padding)

\* The list apply_nms returns.
apply_nms(preds, threshold, padding, limit) ==
    IF preds = <<>> THEN <<>>
    ELSE Truncate(Scan(sorted(preds), 1, <<>>, threshold, padding), limit)

---------------------------------------------------------------------------
(* Inputs. *)

Half == One \div 2

\* Labels of detections given to apply_nms.
class2 == <<"c", "l", "a", "s", "s", "2">>
NmsLabels == {class2, <<"1">>, <<"2">>}

NmsConfidences == {50, 90}

\* Two boxes that share an edge: their padded copies overlap.
NmsBoxes == {<<0, Half, 0, Half>>, <<Half, One, 0, Half>>}

\* A detection without confidence and bbox.
Bare == [displayName |-> <<"2">>]

Detections ==
    [displayName : NmsLabels, confidence : NmsConfidences, bbox : NmsBoxes]
        \cup {Bare}

RECURSIVE ListsUpTo(_, _)
ListsUpTo(S, n) ==
    IF n = 0 THEN {<<>>}
    ELSE LET shorter == ListsUpTo(S, n - 1)
         IN  shorter \cup {Append(l, x) : l \in shorter, x \in S}

Thresholds == {0, One \div 4}

Paddings == {0, Half, One}

---------------------------------------------------------------------------
(* apply_nms, one step per iteration of its outer loop. *)

Init ==
    /\ pc = "call"
    /\ predictions \in ListsUpTo(Detections, MaxLen)
    /\ iou_threshold \in Thresholds
    /\ padding_factor \in Paddings
    /\ max_predictions \in 0..MaxPredBound
    /\ sorted_predictions = <<>>
    /\ filtered_predictions = <<>>
    /\ i = 0
    /\ result = <<>>
    /\ locals = <<>>
    /\ fn = "apply_nms"
    /\ args = <<>>
    /\ ret = <<>>

\* The sort done by predictions.sort(key=sort_key), on the caller's list.
NmsEnter_SortsInPlace ==
    /\ pc = "call"
    /\ fn = "apply_nms"
    /\ IF predictions = <<>>
       THEN /\ pc' = "done"
            /\ result' = <<>>
            /\ UNCHANGED <<predictions, sorted_predictions,
                           filtered_predictions, i>>
       ELSE /\ pc' = "scan"
            /\ predictions' = sorted(predictions)
            /\ sorted_predictions' = sorted(predictions)
            /\ filtered_predictions' = <<>>
            /\ i' = 1
            /\ UNCHANGED result
    /\ UNCHANGED <<iou_threshold, padding_factor, max_predictions>>
    /\ UNCHANGED pureVars

\* "if not predictions: return []", else the sort.
NmsEnter ==
    /\ pc = "call"
    /\ fn = "apply_nms"
    /\ IF predictions = <<>>
       THEN /\ pc' = "done"
            /\ result' = <<>>
            /\ UNCHANGED <<sorted_predictions, filtered_predictions, i>>
       ELSE /\ pc' = "scan"
            /\ sorted_predictions' = sorted(predictions)
            /\ filtered_predictions' = <<>>
            /\ i' = 1
            /\ UNCHANGED result
    /\ UNCHANGED <<predictions, iou_threshold, padding_factor, max_predictions>>
    /\ UNCHANGED pureVars

\* One iteration of "for i, pred in enumerate(sorted_predictions)".
NmsScan ==
    /\ pc = "scan"
    /\ i <= Len(sorted_predictions)
    /\ LET pred == sorted_predictions[i]
           r == CheckSelected(filtered_predictions, 1, pred, iou_threshold,
                              padding_factor)
       IN  IF r.raised
           THEN /\ pc' = "raised"
                /\ UNCHANGED <<filtered_predictions, i>>
           ELSE /\ filtered_predictions' =
                       IF r.should_keep THEN Append(r.filtered, pred)
                       ELSE r.filtered
                /\ i' = i + 1
                /\ UNCHANGED pc
    /\ UNCHANGED <<predictions, iou_threshold, padding_factor, max_predictions,
                   sorted_predictions, result>>
    /\ UNCHANGED pureVars

\* The limit to max_predictions and the return.
NmsReturn ==
    /\ pc = "scan"
    /\ i > Len(sorted_predictions)
    /\ result' = Truncate(filtered_predictions, max_predictions)
    /\ pc' = "done"
    /\ UNCHANGED <<predictions, iou_threshold, padding_factor, max_predictions,
                   sorted_predictions, filtered_predictions, i>>
    /\ UNCHANGED pureVars

Next == NmsEnter \/ NmsScan \/ NmsReturn

Spec == Init /\ [][Next]_vars

---------------------------------------------------------------------------
(* The pure helpers, each called once on inputs drawn at Init. *)

\* Boxes on the half-unit grid from -0.5 on: unordered, empty, out of [0,1].
PadBoxes ==
    {<<a * Half, b * Half, c * Half, d * Half>> :
        a \in -1..MaxCoord, b \in -1..MaxCoord,
        c \in -1..MaxCoord, d \in -1..MaxCoord}

\* Boxes on the half-unit grid from 0 on (an IoU does not change when both
\* boxes are shifted).
IouBoxes ==
    {<<a * Half, b * Half, c * Half, d * Half>> :
        a \in 0..MaxCoord, b \in 0..MaxCoord,
        c \in 0..MaxCoord, d \in 0..MaxCoord}

ClassNames ==
    {<<"c", "l", "a", "s", "s", "1">>,
     <<"c", "l", "a", "s", "s", "2">>,
     <<"c", "l", "a", "s", "s", "3">>,
     <<"c", "l", "a", "s", "s", "1", "2">>,
     <<"C", "l", "a", "s", "s", "2">>,
     <<"C", "L", "A", "S", "S", "3">>,
     <<"c", "l", "a", "s", "s", " ", "4">>,
     <<"c", "l", "a", "s", "s">>,
     <<"c", "l", "a", "s", "s", "A">>,
     <<"c", "l", "a", "s", "s", "1", "c", "l", "a", "s", "s">>,
     <<"1">>, <<"2">>, <<"3">>, <<"1", "2">>, <<" ", "2">>, <<"+", "2">>,
     <<"w", "e", "a", "k">>,
     <<"m", "e", "d", "i", "u", "m">>,
     <<"s", "t", "r", "o", "n", "g">>,
     <<"S", "t", "r", "o", "n", "g">>,
     <<"2", "a">>,
     Unknown,
     <<>>}

InitPure ==
    /\ pc = "call"
    /\ \/ /\ fn = "calculate_iou"
          /\ args \in [box1 : IouBoxes, box2 : IouBoxes]
       \/ /\ fn = "apply_padding_to_bbox"
          /\ args \in [bbox : PadBoxes, padding_factor : Paddings]
       \/ /\ fn = "get_class_number"
          /\ args \in [class_name : ClassNames]
    /\ ret = <<>>
    /\ predictions = <<>>
    /\ iou_threshold = 0
    /\ padding_factor = 0
    /\ max_predictions = 0
    /\ sorted_predictions = <<>>
    /\ filtered_predictions = <<>>
    /\ i = 0
    /\ result = <<>>
    /\ locals = <<>>

CallIou ==
    /\ pc = "call"
    /\ fn = "calculate_iou"
    /\ ret' = calculate_iou(args.box1, args.box2)
    /\ pc' = "done"
    /\ UNCHANGED <<fn, args, locals>>
    /\ UNCHANGED nmsVars

CallPadding ==
    /\ pc = "call"
    /\ fn = "apply_padding_to_bbox"
    /\ ret' = apply_padding_to_bbox(args.bbox, args.padding_factor)
    /\ pc' = "done"
    /\ UNCHANGED <<fn, args, locals>>
    /\ UNCHANGED nmsVars

CallClassNumber ==
    /\ pc = "call"
    /\ fn = "get_class_number"
    /\ ret' = get_class_number(args.class_name)
    /\ pc' = "done"
    /\ UNCHANGED <<fn, args, locals>>
    /\ UNCHANGED nmsVars

NextPure == CallIou \/ CallPadding \/ CallClassNumber

SpecPure == InitPure /\ [][NextPure]_vars

---------------------------------------------------------------------------
(* Properties of apply_nms, checked under Spec. *)

Returned == pc = "done" /\ fn = "apply_nms"

\* The class priority as the data model words it: "classN" is N, the bare
\* numeric string "N" is N, any other label is 0.
ClassPriority(class_name) ==
    IF startswith(lower(class_name), class)
    THEN LET n == int(replace(lower(class_name), class))
         IN  IF n.ok THEN n.value ELSE 0
    ELSE LET n == int(class_name)
         IN  IF n.ok THEN n.value ELSE 0

\* The IoU of the padded boxes of two detections, as the scan computes it.
PaddedIoUOf(a, b) ==
    calculate_iou(apply_padding_to_bbox(Bbox(a), padding_factor),
                  apply_padding_to_bbox(Bbox(b), padding_factor))

\* C1: for every detection list and every max_predictions >= 0 (0 included)
\* apply_nms returns at most max_predictions detections.
C1_AtMostMaxPredictions ==
    Returned => Len(result) <= max_predictions

\* apply_nms has returned after dropping accepted detections beyond the limit.
C1_Witness ==
    /\ Returned
    /\ Len(filtered_predictions) > max_predictions
    /\ Len(result) = max_predictions

\* C2: in the returned list every two detections of equal class priority
\* have an IoU of their padded boxes that is at most iou_threshold.
C2_RetainedPairsBelowThreshold ==
    Returned =>
        \A a \in 1..Len(result) : \A b \in 1..Len(result) :
            ( /\ a # b
              /\ \/ ClassPriority(DisplayName(result[a]))
                        = ClassPriority(DisplayName(result[b]))
                 \/ get_class_number(DisplayName(result[a]))
                        = get_class_number(DisplayName(result[b])) )
            => FracLE(PaddedIoUOf(result[a], result[b]), iou_threshold)

\* Two detections of equal priority are both returned although their padded
\* boxes overlap, the overlap being no more than the threshold.
C2_Witness ==
    /\ Returned
    /\ Len(result) = 2
    /\ ClassPriority(DisplayName(result[1])) = ClassPriority(DisplayName(result[2]))
    /\ get_class_number(DisplayName(result[1]))
           = get_class_number(DisplayName(result[2]))
    /\ padding_factor > 0
    /\ PaddedIoUOf(result[1], result[2]) # Zero
    /\ FracLE(PaddedIoUOf(result[1], result[2]), iou_threshold)

\* C3: given two detections of class priorities 1 and 2 whose padded IoU is
\* above iou_threshold, apply_nms returns the priority-2 detection and not the
\* priority-1 detection, whatever their confidences and input order (stated
\* for a limit that leaves room for one detection).
C3_PriorityTwoEvictsPriorityOne ==
    ( /\ Returned
      /\ Len(predictions) = 2
      /\ max_predictions >= 1
      /\ FracGT(PaddedIoUOf(predictions[1], predictions[2]), iou_threshold) )
    => \A lo \in 1..2 : \A hi \in 1..2 :
           ( /\ ClassPriority(DisplayName(predictions[lo])) = 1
             /\ ClassPriority(DisplayName(predictions[hi])) = 2 )
           => result = <<predictions[hi]>>

\* The elements of seq with class priority p and confidence c, in order.
WithKey(seq, p, c) ==
    SelectSeq(seq, LAMBDA d : ClassPriority(DisplayName(d)) = p /\ Confidence(d) = c)

\* s can be obtained from t by deleting elements.
RECURSIVE IsSubsequence(_, _)
IsSubsequence(s, t) ==
    IF s = <<>> THEN TRUE
    ELSE IF t = <<>> THEN FALSE
    ELSE IF Head(s) = Head(t) THEN IsSubsequence(Tail(s), Tail(t))
    ELSE IsSubsequence(s, Tail(t))

\* C5: the returned list is ordered by descending class priority, then by
\* descending confidence, detections equal on both keys keeping their input
\* order; when the limit cuts the list, the first max_predictions of that
\* order are the ones kept.
C5_OrderedByPriorityThenConfidence ==
    Returned =>
        /\ \A a \in 1..Len(result) : \A b \in 1..Len(result) :
               a < b =>
                   LET pa == ClassPriority(DisplayName(result[a]))
                       pb == ClassPriority(DisplayName(result[b]))
                   IN  \/ pa > pb
                       \/ pa = pb /\ Confidence(result[a]) >= Confidence(result[b])
        /\ \A d \in {result[k] : k \in 1..Len(result)} :
               LET p == ClassPriority(DisplayName(d))
                   c == Confidence(d)
               IN  IsSubsequence(WithKey(result, p, c), WithKey(predictions, p, c))
        /\ Len(filtered_predictions) > max_predictions
               => result = SubSeq(filtered_predictions, 1, max_predictions)

---------------------------------------------------------------------------
(* Properties of the pure helpers, checked under SpecPure. *)

Called(f) == pc = "done" /\ fn = f

\* C4: the class priority of a label is the integer it carries in either
\* form ("classN" and the bare "N" both give N, any other label gives 0), and
\* the sort key holds the same value as the conflict comparison uses.
C4_PriorityOfEitherLabelForm ==
    Called("get_class_number") =>
        /\ ret = ClassPriority(args.class_name)
        /\ sort_key([displayName |-> args.class_name, confidence |-> 0])[1] = -ret

\* 0 <= xMin <= xMax <= 1 and 0 <= yMin <= yMax <= 1
WithinUnitSquare(b) ==
    /\ 0 <= b[1] /\ b[1] <= b[2] /\ b[2] <= One
    /\ 0 <= b[3] /\ b[3] <= b[4] /\ b[4] <= One

Ordered(b) == b[1] <= b[2] /\ b[3] <= b[4]

\* The interval [lo, hi] grown about its middle by the factor 1 + p has a
\* point in [0, 1].  (lo + hi) * One is twice the middle and
\* (hi - lo) * (One + p) twice the grown length, both times One.
GrownMeetsUnit(lo, hi, p) ==
    /\ (lo + hi) * One - (hi - lo) * (One + p) <= 2 * One * One
    /\ (lo + hi) * One + (hi - lo) * (One + p) >= 0

C7_ZeroPaddingIsIdentity ==
    ( Called("apply_padding_to_bbox") /\ args.padding_factor = 0 )
        => ret = args.bbox

\* A box outside [0,1] came back unchanged from a call with padding 0.
C7_Witness ==
    /\ Called("apply_padding_to_bbox")
    /\ args.padding_factor = 0
    /\ ~WithinUnitSquare(args.bbox)
    /\ Ordered(args.bbox)
    /\ ret = args.bbox

\* C8: calculate_iou(a, b) = calculate_iou(b, a) for all boxes a and b.
C8_IouSymmetric ==
    Called("calculate_iou") => ret = calculate_iou(args.box2, args.box1)

\* Two different boxes that overlap in part.
C8_Witness ==
    /\ Called("calculate_iou")
    /\ args.box1 # args.box2
    /\ (args.box1[2] - args.box1[1]) * (args.box1[4] - args.box1[3])
           # (args.box2[2] - args.box2[1]) * (args.box2[4] - args.box2[3])
    /\ ret # Zero
    /\ ret # <<1, 1>>

PositiveArea(b) == b[1] < b[2] /\ b[3] < b[4]

\* C9: calculate_iou(a, a) = 1 for every box a with xMin < xMax and
\* yMin < yMax.
C9_IouOfBoxWithItself ==
    ( Called("calculate_iou") /\ args.box1 = args.box2 /\ PositiveArea(args.box1) )
        => ret = <<1, 1>>

\* A box of positive area was compared with itself.
C9_Witness ==
    /\ Called("calculate_iou")
    /\ args.box1 = args.box2
    /\ PositiveArea(args.box1)
    /\ ret = <<1, 1>>

ZeroArea(b) == (b[2] - b[1]) * (b[4] - b[3]) = 0

NoOverlap(a, b) ==
    \/ Min(a[2], b[2]) < Max(a[1], b[1])
    \/ Min(a[4], b[4]) < Max(a[3], b[3])

\* C10: calculate_iou never divides by zero; it returns 0.0 whenever the
\* union area is zero (both boxes of zero area) and whenever the boxes do not
\* overlap.
C10_NoDivisionByZero ==
    Called("calculate_iou") =>
        /\ ret # ZeroDivisionError
        /\ (ZeroArea(args.box1) /\ ZeroArea(args.box2)) => ret = Zero
        /\ union_area(args.box1, args.box2) = 0 => ret = Zero
        /\ NoOverlap(args.box1, args.box2) => ret = Zero

\* Two boxes of zero area that meet: the call got to the union and found it 0.
C10_Witness ==
    /\ Called("calculate_iou")
    /\ ZeroArea(args.box1)
    /\ ZeroArea(args.box2)
    /\ ~NoOverlap(args.box1, args.box2)
    /\ union_area(args.box1, args.box2) = 0
    /\ ret = Zero

---------------------------------------------------------------------------
(* Float arithmetic of the metrics, exact on fractions <<n, d>> with d > 0.
   An operand that is ZeroDivisionError makes the result ZeroDivisionError.
   The detection lists drawn below are ones on which the rounding error of
   the floats changes no truncation, no comparison and no rounded result. *)

IsError(a) == a[2] = 0

\* float(k) of an integer k
Num(k) == <<k, 1>>

Add(a, b) ==
    IF IsError(a) \/ IsError(b) THEN ZeroDivisionError
    ELSE Frac(a[1] * b[2] + b[1] * a[2], a[2] * b[2])

Mul(a, b) ==
    IF IsError(a) \/ IsError(b) THEN ZeroDivisionError
    ELSE Frac(a[1] * b[1], a[2] * b[2])

\* a / b
Div(a, b) ==
    IF IsError(a) \/ IsError(b) THEN ZeroDivisionError
    ELSE Frac(a[1] * b[2], a[2] * b[1])

\* a < b
Less(a, b) == a[1] * b[2] < b[1] * a[2]

\* a >= b
AtLeast(a, b) == ~Less(a, b)

\* a > 0
Positive(a) == a[1] > 0

\* int(x): the fraction is cut off towards zero.
IntOfFloat(x) == IF x[1] >= 0 THEN x[1] \div x[2] ELSE -((-x[1]) \div x[2])

Pow10(ndigits) == IF ndigits = 0 THEN 1 ELSE IF ndigits = 1 THEN 10 ELSE 100

\* round(x, ndigits): to the nearest multiple of 10^-ndigits, a tie to the
\* even one.
round(x, ndigits) ==
    IF IsError(x) THEN ZeroDivisionError
    ELSE LET scaled == x[1] * Pow10(ndigits)
             low == scaled \div x[2]
             twice == 2 * (scaled - low * x[2])
             nearest == IF twice < x[2] THEN low
                        ELSE IF twice > x[2] THEN low + 1
                        ELSE IF low % 2 = 0 THEN low ELSE low + 1
         IN  Frac(nearest, Pow10(ndigits))

---------------------------------------------------------------------------
(* calculate_follicular_metrics *)

AREA_CM2 == <<273, 1000>>

\* The lowest confidence a counted detection has: 0.1.
ConfidenceFloor == 10

\* The hair count of a label: "2" and "class2" are 2, a label that is no
\* number is 1.
class_number(class_name) ==
    LET n == IF startswith(lower(class_name), class)
             THEN int(replace(lower(class_name), class))
             ELSE int(class_name)
    IN  IF n.ok THEN n.value ELSE 1

\* The detections the first loop does not skip.
Counted_All(preds) == preds

Counted(preds) ==
    SelectSeq(preds, LAMBDA pred : ~(Get(pred, "confidence", 0) < ConfidenceFloor))

RECURSIVE SumHairs(_)
SumHairs(counted) ==
    IF counted = <<>> THEN 0
    ELSE class_number(Get(Head(counted), "displayName", Unknown))
             + SumHairs(Tail(counted))

\* class_counts: label -> number of counted detections with that label.
ClassCounts(counted) ==
    LET names == {Get(counted[k], "displayName", Unknown) : k \in 1..Len(counted)}
    IN  [name \in names |->
            Cardinality({k \in 1..Len(counted) :
                Get(counted[k], "displayName", Unknown) = name})]

RECURSIVE SumCounts(_, _)
SumCounts(class_counts, names) ==
    IF names = {} THEN 0
    ELSE LET name == CHOOSE n \in names : TRUE
         IN  class_counts[name] + SumCounts(class_counts, names \ {name})

average_hair_per_unit_NoGuard(total_hairs, total_follicular_units) ==
    Div(Num(total_hairs), Num(total_follicular_units))

\* total_hairs / total_follicular_units, 0 without units.
average_hair_per_unit(total_hairs, total_follicular_units) ==
    IF total_follicular_units > 0
    THEN Div(Num(total_hairs), Num(total_follicular_units))
    ELSE Zero

calculate_follicular_metrics(preds) ==
    LET counted == Counted(preds)
        total_follicular_units == Len(counted)
        total_hairs == SumHairs(counted)
        class_counts == ClassCounts(counted)
        one == {name \in DOMAIN class_counts : class_number(name) = 1}
        fu_with_one_hair == SumCounts(class_counts, one)
        fu_with_multiple_hairs ==
            SumCounts(class_counts, (DOMAIN class_counts) \ one)
        follicular_density ==
            IF Positive(AREA_CM2)
            THEN Div(Num(total_follicular_units), AREA_CM2)
            ELSE Zero
    IN  [total_follicular_units |-> total_follicular_units,
         total_hairs |-> total_hairs,
         follicular_density_per_cm2 |-> round(follicular_density, 2),
         average_hair_per_unit |->
             round(average_hair_per_unit(total_hairs, total_follicular_units),
                   2),
         fu_with_one_hair |-> fu_with_one_hair,
         fu_with_multiple_hairs |-> fu_with_multiple_hairs,
         area_cm2 |-> AREA_CM2,
         class_distribution |-> class_counts]

---------------------------------------------------------------------------
(* Binary floating point.  The truncation int(...) of the caliber index    *)
(* depends on the last bit of the rescaled counts, so these are computed   *)
(* as Python computes them: a float is m * 2^e, the mantissa m a natural   *)
(* number of 53 bits written as a list of 15-bit limbs, lowest first, and  *)
(* every operation rounds its exact result to 53 bits, a tie to the even   *)
(* mantissa.  No value here is negative.                                   *)

MantissaBits == 53

LimbBits == 15

Limb == 2^LimbBits

\* The limbs of an int n >= 0, lowest first, no leading zero limb.
RECURSIVE LimbsOf(_)
LimbsOf(n) == IF n = 0 THEN <<>> ELSE <<n % Limb>> \o LimbsOf(n \div Limb)

\* The int of a short list of limbs.
RECURSIVE NatOf(_)
NatOf(limbs) ==
    IF limbs = <<>> THEN 0 ELSE Head(limbs) + Limb * NatOf(Tail(limbs))

RECURSIVE TrimLimbs(_)
TrimLimbs(limbs) ==
    IF limbs = <<>> \/ limbs[Len(limbs)] # 0 THEN limbs
    ELSE TrimLimbs(SubSeq(limbs, 1, Len(limbs) - 1))

\* The number of bits of an int n >= 0.
RECURSIVE BitLength(_)
BitLength(n) == IF n = 0 THEN 0 ELSE 1 + BitLength(n \div 2)

\* The number of bits of a list of limbs without leading zero limb.
LimbsBitLength(limbs) ==
    IF limbs = <<>> THEN 0
    ELSE LimbBits * (Len(limbs) - 1) + BitLength(limbs[Len(limbs)])

\* limbs * k + carry for an int k < Limb; column is the sum of the lowest
\* column.
RECURSIVE MulLimbs(_, _, _)
RECURSIVE MulColumn(_, _, _)
MulColumn(higher, k, column) ==
    <<column % Limb>> \o MulLimbs(higher, k, column \div Limb)

MulLimbs(limbs, k, carry) ==
    IF limbs = <<>> THEN LimbsOf(carry)
    ELSE MulColumn(Tail(limbs), k, Head(limbs) * k + carry)

\* Lowest limb and the other limbs of a list that may have run out.
LowLimb(limbs) == IF limbs = <<>> THEN 0 ELSE Head(limbs)
HigherLimbs(limbs) == IF limbs = <<>> THEN limbs ELSE Tail(limbs)

\* a + b + carry
RECURSIVE AddLimbs(_, _, _)
RECURSIVE AddColumn(_, _, _)
AddColumn(a, b, column) ==
    <<column % Limb>> \o AddLimbs(a, b, column \div Limb)

AddLimbs(a, b, carry) ==
    IF a = <<>> /\ b = <<>> THEN LimbsOf(carry)
    ELSE AddColumn(HigherLimbs(a), HigherLimbs(b),
                   LowLimb(a) + LowLimb(b) + carry)

RECURSIVE ZeroLimbs(_)
ZeroLimbs(n) == IF n = 0 THEN <<>> ELSE <<0>> \o ZeroLimbs(n - 1)

\* limbs * 2^n
ShiftLeft(limbs, n) ==
    IF limbs = <<>> THEN limbs
    ELSE ZeroLimbs(n \div LimbBits) \o MulLimbs(limbs, 2^(n % LimbBits), 0)

\* The limbs from the k-th on, each shifted down by r < LimbBits bits and
\* filled up from the limb above.
RECURSIVE ShiftedDown(_, _, _)
ShiftedDown(limbs, k, r) ==
    IF k > Len(limbs) THEN <<>>
    ELSE <<(limbs[k] \div 2^r)
               + (IF k < Len(limbs) THEN limbs[k + 1] % 2^r ELSE 0)
                     * 2^(LimbBits - r)>>
         \o ShiftedDown(limbs, k + 1, r)

\* limbs \div 2^n
ShiftRight(limbs, n) ==
    TrimLimbs(ShiftedDown(limbs, n \div LimbBits + 1, n % LimbBits))

\* Bit number n (from 0) of limbs.
BitAt(limbs, n) ==
    IF n \div LimbBits + 1 > Len(limbs) THEN 0
    ELSE (limbs[n \div LimbBits + 1] \div 2^(n % LimbBits)) % 2

\* Some bit below bit number n is set.
AnyBitBelow(limbs, n) ==
    \/ \E k \in 1..Min(n \div LimbBits, Len(limbs)) : limbs[k] # 0
    \/ /\ n \div LimbBits + 1 <= Len(limbs)
       /\ limbs[n \div LimbBits + 1] % 2^(n % LimbBits) # 0

FloatZero == [m |-> <<>>, e |-> 0]

\* m * 2^e with m of exactly 53 bits, for an m of at most 54 bits.
Normalized(m, e) ==
    IF m = <<>> THEN FloatZero
    ELSE IF LimbsBitLength(m) > MantissaBits
    THEN [m |-> ShiftRight(m, 1), e |-> e + 1]
    ELSE [m |-> ShiftLeft(m, MantissaBits - LimbsBitLength(m)),
          e |-> e - (MantissaBits - LimbsBitLength(m))]

\* The float nearest to m * 2^e (plus a little, if sticky).
RoundToFloat(m, e, sticky) ==
    LET limbs == TrimLimbs(m)
        drop == LimbsBitLength(limbs) - MantissaBits
    IN  IF drop <= 0 THEN Normalized(limbs, e)
        ELSE LET kept == ShiftRight(limbs, drop)
                 guard == BitAt(limbs, drop - 1)
                 below == sticky \/ AnyBitBelow(limbs, drop - 1)
                 up == guard = 1 /\ (below \/ kept[1] % 2 = 1)
             IN  Normalized(IF up THEN AddLimbs(kept, <<>>, 1) ELSE kept,
                            e + drop)

\* float(k) of an int k >= 0
FloatOf(k) == Normalized(LimbsOf(k), 0)

\* Long division of a list of limbs, highest first, by an int d < Limb: the
\* quotient (lowest limb first) and the remainder; rem is the remainder so
\* far, r the remainder with the next limb taken down.
RECURSIVE LongDivision(_, _, _, _)
RECURSIVE DivisionStep(_, _, _, _)
DivisionStep(high_first, d, r, quotient) ==
    LongDivision(high_first, d, r % d, <<r \div d>> \o quotient)

LongDivision(high_first, d, rem, quotient) ==
    IF high_first = <<>> THEN [quotient |-> quotient, rem |-> rem]
    ELSE DivisionStep(Tail(high_first), d, rem * Limb + Head(high_first),
                      quotient)

RECURSIVE Reverse(_)
Reverse(seq) ==
    IF seq = <<>> THEN seq ELSE Append(Reverse(Tail(seq)), Head(seq))

\* The bits a dividend is shifted up by, so that the quotient has more bits
\* than a mantissa.
QuotientShift == 75

\* a / b for ints a >= 0 and 0 < b < Limb
FloatDivInts(a, b) ==
    LET dividend == ShiftLeft(LimbsOf(a), QuotientShift)
        q == LongDivision(Reverse(dividend), b, 0, <<>>)
    IN  RoundToFloat(q.quotient, -QuotientShift, q.rem # 0)

\* x * k for an int 0 <= k < Limb
FloatMulInt(x, k) == RoundToFloat(MulLimbs(x.m, k, 0), x.e, FALSE)

\* x * 1.5
FloatMulOneAndHalf(x) == RoundToFloat(MulLimbs(x.m, 3, 0), x.e - 1, FALSE)

\* x + y
FloatAdd(x, y) ==
    IF x.m = <<>> THEN y
    ELSE IF y.m = <<>> THEN x
    ELSE RoundToFloat(AddLimbs(ShiftLeft(x.m, x.e - Min(x.e, y.e)),
                               ShiftLeft(y.m, y.e - Min(x.e, y.e)), 0),
                      Min(x.e, y.e), FALSE)

\* int(x): the whole part.
FloatInt(x) ==
    IF x.e >= 0 THEN NatOf(ShiftLeft(x.m, x.e))
    ELSE NatOf(ShiftRight(x.m, -x.e))

---------------------------------------------------------------------------
(* calculate_combined_metrics *)

strong == <<"s", "t", "r", "o", "n", "g">>
medium == <<"m", "e", "d", "i", "u", "m">>
weak == <<"w", "e", "a", "k">>

\* sum(1 for p in thickness_predictions if p['displayName'] == name)
CountLabel(thickness, name) ==
    Cardinality({k \in 1..Len(thickness) : thickness[k].displayName = name})

\* p['displayName'] of a detection without that key raises KeyError.
RaisesKeyError(thickness) ==
    \E k \in 1..Len(thickness) : "displayName" \notin DOMAIN thickness[k]

\* One if-chain of the interpretation bands.
Band_Strict(value, success_at, warning_at) ==
    IF ~AtLeast(Num(success_at), value) THEN "success"
    ELSE IF ~AtLeast(Num(warning_at), value) THEN "warning"
    ELSE "danger"

Band(value, success_at, warning_at) ==
    IF AtLeast(value, Num(success_at)) THEN "success"
    ELSE IF AtLeast(value, Num(warning_at)) THEN "warning"
    ELSE "danger"

\* weak / strong as a percentage, 0.0 without strong hairs.
terminal_to_vellus_ratio_NoGuard(weak_hairs, strong_hairs) ==
    Mul(Div(weak_hairs, strong_hairs), Num(100))

terminal_to_vellus_ratio(weak_hairs, strong_hairs) ==
    IF Positive(strong_hairs)
    THEN Mul(Div(weak_hairs, strong_hairs), Num(100))
    ELSE Zero

\* The harmonic mean of the two normalized percentages, times 100.
overall_hair_score_NoGuard(hci_normalized, ehd_normalized) ==
    Mul(Div(Num(2), Add(Div(Num(1), hci_normalized),
                        Div(Num(1), ehd_normalized))),
        Num(100))

overall_hair_score(hci_normalized, ehd_normalized) ==
    IF Positive(hci_normalized) /\ Positive(ehd_normalized)
    THEN Mul(Div(Num(2), Add(Div(Num(1), hci_normalized),
                             Div(Num(1), ehd_normalized))),
             Num(100))
    ELSE Zero

\* The scorecard returned when both lists are empty.
EmptyScorecard ==
    [terminal_to_vellus_ratio |-> Zero,
     percent_thick_hairs |-> Zero,
     hair_caliber_index |-> 0,
     average_thickness_score |-> Zero,
     hairs_per_fu |-> Zero,
     hairs_per_cm2 |-> Zero,
     effective_hair_density |-> Zero]

\* The function body in stages; each stage takes the local variables set
\* so far as a record and adds the ones it sets.

\* total_hairs and total_fu of the density model.
DensityTotals(density_predictions) ==
    LET density_metrics ==
            IF density_predictions # <<>>
            THEN calculate_follicular_metrics(density_predictions)
            ELSE [total_follicular_units |-> 0, total_hairs |-> 0]
    IN  [total_hairs |-> density_metrics.total_hairs,
         total_fu |-> density_metrics.total_follicular_units]

\* The raw thickness counts.
RawThickness(thickness_predictions) ==
    [strong_hairs_raw |-> CountLabel(thickness_predictions, strong),
     medium_hairs_raw |-> CountLabel(thickness_predictions, medium),
     weak_hairs_raw |-> CountLabel(thickness_predictions, weak),
     total_thickness_detections_raw |-> Len(thickness_predictions)]

\* The raw counts scaled to the hair count of the density model: name is the
\* exact value, name_float the float the code holds.
Rescaling(l) ==
    LET rescale == l.total_thickness_detections_raw > 0 /\ l.total_hairs > 0
        Scaled(raw) ==
            IF rescale
            THEN Mul(Div(Num(raw), Num(l.total_thickness_detections_raw)),
                     Num(l.total_hairs))
            ELSE Zero
        ScaledFloat(raw) ==
            IF rescale
            THEN FloatMulInt(FloatDivInts(raw, l.total_thickness_detections_raw),
                             l.total_hairs)
            ELSE FloatZero
    IN  l @@
        [strong_hairs |-> Scaled(l.strong_hairs_raw),
         medium_hairs |-> Scaled(l.medium_hairs_raw),
         weak_hairs |-> Scaled(l.weak_hairs_raw),
         strong_hairs_float |-> ScaledFloat(l.strong_hairs_raw),
         medium_hairs_float |-> ScaledFloat(l.medium_hairs_raw),
         weak_hairs_float |-> ScaledFloat(l.weak_hairs_raw),
         total_thickness_detections |-> IF rescale THEN l.total_hairs ELSE 0]

CaliberIndex(l) ==
    l @@
    [terminal_to_vellus_ratio |->
         terminal_to_vellus_ratio(l.weak_hairs, l.strong_hairs),
     percent_thick_hairs |->
         IF l.total_thickness_detections > 0
         THEN Mul(Div(l.strong_hairs, Num(l.total_thickness_detections)),
                  Num(100))
         ELSE Zero,
     hair_caliber_index |->
         FloatInt(FloatAdd(FloatAdd(FloatMulInt(l.strong_hairs_float, 3),
                                    FloatMulOneAndHalf(l.medium_hairs_float)),
                           FloatMulInt(l.weak_hairs_float, 1)))]

Ratios(l) ==
    l @@
    [hair_caliber_index_percentage |->
         IF l.total_hairs > 0
         THEN Mul(Div(Num(l.hair_caliber_index), Num(l.total_hairs * 3)),
                  Num(100))
         ELSE Zero,
     average_thickness_score |->
         IF l.total_thickness_detections > 0
         THEN Div(Num(l.hair_caliber_index),
                  Num(l.total_thickness_detections))
         ELSE Zero,
     hairs_per_fu |->
         IF l.total_fu > 0
         THEN Div(Num(l.total_hairs), Num(l.total_fu))
         ELSE Zero,
     hairs_per_cm2 |->
         IF Positive(AREA_CM2) THEN Div(Num(l.total_hairs), AREA_CM2)
         ELSE Zero]

EffectiveDensity(l) ==
    LET effective_hair_density ==
            Div(Mul(l.hairs_per_cm2, l.average_thickness_score), Num(3))
        ehd_max == Num(220)
    IN  l @@
        [effective_hair_density |-> effective_hair_density,
         ehd_max |-> ehd_max,
         ehd_percentage |->
             IF Positive(ehd_max)
             THEN Mul(Div(effective_hair_density, ehd_max), Num(100))
             ELSE Zero]

OverallScore(l) ==
    LET hci_normalized == Div(l.hair_caliber_index_percentage, Num(100))
        ehd_normalized == Div(l.ehd_percentage, Num(100))
    IN  l @@
        [hci_normalized |-> hci_normalized,
         ehd_normalized |-> ehd_normalized,
         overall_hair_score |->
             overall_hair_score(hci_normalized, ehd_normalized)]

Bands(l) ==
    LET ohs_color == Band(l.overall_hair_score, 80, 50)
    IN  l @@
        [ohs_interpretation |->
             IF ohs_color = "success" THEN "Good"
             ELSE IF ohs_color = "warning" THEN "Borderline"
             ELSE "Poor Coverage/Density",
         ohs_color |-> ohs_color,
         hci_color |-> Band(l.hair_caliber_index_percentage, 80, 50),
         ehd_color |-> Band(l.ehd_percentage, 80, 50),
         hairs_per_cm2_color |-> Band(l.hairs_per_cm2, 150, 110),
         terminal_to_vellus_color |-> Band(l.terminal_to_vellus_ratio, 7, 4),
         thick_hair_color |-> Band(l.percent_thick_hairs, 90, 75)]

\* The values of the local variables when the function reaches its return
\* statement, for lists that are not both empty and raise no KeyError.
CombinedLocals(density_predictions, thickness_predictions) ==
    Bands(OverallScore(EffectiveDensity(Ratios(CaliberIndex(Rescaling(
        DensityTotals(density_predictions)
            @@ RawThickness(thickness_predictions)))))))

\* A division by zero on the way leaves its mark in a float local.
RaisesZeroDivisionError(l) ==
    \E name \in {"strong_hairs", "medium_hairs", "weak_hairs",
                  "terminal_to_vellus_ratio", "percent_thick_hairs",
                  "hair_caliber_index_percentage", "average_thickness_score",
                  "hairs_per_fu", "hairs_per_cm2", "effective_hair_density",
                  "ehd_percentage", "hci_normalized", "ehd_normalized",
                  "overall_hair_score"} : IsError(l[name])

\* The returned scorecard.
Scorecard(l) ==
    [terminal_to_vellus_ratio |-> round(l.terminal_to_vellus_ratio, 1),
     terminal_to_vellus_color |-> l.terminal_to_vellus_color,
     percent_thick_hairs |-> round(l.percent_thick_hairs, 1),
     thick_hair_color |-> l.thick_hair_color,
     hair_caliber_index |-> l.hair_caliber_index,
     hair_caliber_index_percentage |->
         round(l.hair_caliber_index_percentage, 1),
     hci_color |-> l.hci_color,
     average_thickness_score |-> round(l.average_thickness_score, 2),
     hairs_per_fu |-> round(l.hairs_per_fu, 2),
     hairs_per_cm2 |-> round(l.hairs_per_cm2, 1),
     hairs_per_cm2_color |-> l.hairs_per_cm2_color,
     effective_hair_density |-> round(l.effective_hair_density, 1),
     ehd_percentage |-> round(l.ehd_percentage, 1),
     ehd_color |-> l.ehd_color,
     overall_hair_score |-> round(l.overall_hair_score, 1),
     ohs_interpretation |-> l.ohs_interpretation,
     ohs_color |-> l.ohs_color]

BothEmpty(density_predictions, thickness_predictions) ==
    density_predictions = <<>> /\ thickness_predictions = <<>>

calculate_combined_metrics(density_predictions, thickness_predictions) ==
    IF BothEmpty(density_predictions, thickness_predictions)
    THEN EmptyScorecard
    ELSE Scorecard(CombinedLocals(density_predictions, thickness_predictions))

\* thickness_metrics of the upload handler, computed for a non-empty list.
thickness_metrics(thickness_predictions) ==
    [strong |-> CountLabel(thickness_predictions, strong),
     medium |-> CountLabel(thickness_predictions, medium),
     weak |-> CountLabel(thickness_predictions, weak),
     total_detections |-> Len(thickness_predictions)]

---------------------------------------------------------------------------
(* The metrics, each called once on detection lists drawn at Init. *)

\* Density detections: counted ones, one at the confidence floor, one below
\* it, one without a confidence, one without a label, one labelled "0".
DensityDetections ==
    {[displayName |-> <<"1">>, confidence |-> 90],
     [displayName |-> <<"1">>, confidence |-> ConfidenceFloor],
     [displayName |-> <<"2">>, confidence |-> 90],
     [displayName |-> <<"2">>, confidence |-> 5],
     [displayName |-> class2, confidence |-> 90],
     [displayName |-> <<"0">>, confidence |-> 90],
     [confidence |-> 90],
     Bare}

\* Thickness detections: the three recognized labels, another label, and a
\* detection without a label.
ThicknessDetections ==
    {[displayName |-> strong, confidence |-> 90],
     [displayName |-> medium, confidence |-> 90],
     [displayName |-> weak, confidence |-> 90],
     [displayName |-> Unknown, confidence |-> 90],
     [confidence |-> 90]}

Repeat(x, n) == [k \in 1..n |-> x]

\* Scans of a full image: many one-hair units followed by two-hair units.
DenseScan(ones, twos) ==
    Repeat([displayName |-> <<"1">>, confidence |-> 90], ones)
        \o Repeat([displayName |-> <<"2">>, confidence |-> 90], twos)

DenseScans ==
    {DenseScan(c[1], c[2]) :
        c \in {<<5, 0>>, <<32, 0>>, <<45, 0>>, <<61, 0>>, <<41, 10>>,
               <<20, 0>>, <<22, 0>>, <<35, 0>>}}

\* Thickness results of a full image, grouped by label.
ThickScan(s, m, w) ==
    Repeat([displayName |-> strong, confidence |-> 90], s)
        \o Repeat([displayName |-> medium, confidence |-> 90], m)
        \o Repeat([displayName |-> weak, confidence |-> 90], w)

ThickScans ==
    {ThickScan(c[1], c[2], c[3]) :
        c \in {<<9, 0, 1>>, <<3, 0, 1>>, <<4, 0, 1>>, <<25, 0, 1>>,
               <<30, 0, 2>>, <<30, 0, 1>>, <<3, 2, 0>>,
               <<15, 0, 7>>, <<15, 12, 8>>}}

DensityLists == ListsUpTo(DensityDetections, MaxLen) \cup DenseScans

ThicknessLists == ListsUpTo(ThicknessDetections, MaxLen) \cup ThickScans

InitMetrics ==
    /\ pc = "call"
    /\ \/ /\ fn = "calculate_follicular_metrics"
          /\ args \in [predictions : DensityLists]
       \/ /\ fn = "calculate_combined_metrics"
          /\ args \in [density_predictions : DensityLists,
                       thickness_predictions : ThicknessLists]
       \/ /\ fn = "thickness_metrics"
          /\ args \in [thickness_predictions : ThicknessLists \ {<<>>}]
    /\ ret = <<>>
    /\ locals = <<>>
    /\ predictions = <<>>
    /\ iou_threshold = 0
    /\ padding_factor = 0
    /\ max_predictions = 0
    /\ sorted_predictions = <<>>
    /\ filtered_predictions = <<>>
    /\ i = 0
    /\ result = <<>>

CallFollicularMetrics ==
    /\ pc = "call"
    /\ fn = "calculate_follicular_metrics"
    /\ ret' = calculate_follicular_metrics(args.predictions)
    /\ pc' = "done"
    /\ UNCHANGED <<fn, args, locals>>
    /\ UNCHANGED nmsVars

CallCombinedMetrics ==
    /\ pc = "call"
    /\ fn = "calculate_combined_metrics"
    /\ LET d == args.density_predictions
           t == args.thickness_predictions
       IN  IF BothEmpty(d, t)
           THEN /\ ret' = calculate_combined_metrics(d, t)
                /\ pc' = "done"
                /\ UNCHANGED locals
           ELSE IF RaisesKeyError(t)
           THEN /\ pc' = "raised"
                /\ UNCHANGED <<ret, locals>>
           ELSE /\ locals' = CombinedLocals(d, t)
                /\ IF RaisesZeroDivisionError(locals')
                   THEN pc' = "raised" /\ UNCHANGED ret
                   ELSE pc' = "done" /\ ret' = calculate_combined_metrics(d, t)
    /\ UNCHANGED <<fn, args>>
    /\ UNCHANGED nmsVars

CallThicknessMetrics ==
    /\ pc = "call"
    /\ fn = "thickness_metrics"
    /\ IF RaisesKeyError(args.thickness_predictions)
       THEN pc' = "raised" /\ UNCHANGED ret
       ELSE /\ ret' = thickness_metrics(args.thickness_predictions)
            /\ pc' = "done"
    /\ UNCHANGED <<fn, args, locals>>
    /\ UNCHANGED nmsVars

NextMetrics ==
    CallFollicularMetrics \/ CallCombinedMetrics \/ CallThicknessMetrics

SpecMetrics == InitMetrics /\ [][NextMetrics]_vars

---------------------------------------------------------------------------
(* Properties of calculate_follicular_metrics. *)

\* The positions of the detections with confidence >= 0.1.
AtOrAboveFloor(preds) ==
    {k \in 1..Len(preds) :
        "confidence" \in DOMAIN preds[k] /\ preds[k].confidence >= 10}

\* The hair count parsed from the label of a detection.
HairCount(pred) == class_number(DisplayName(pred))

RECURSIVE SumHairCounts(_, _)
SumHairCounts(preds, positions) ==
    IF positions = {} THEN 0
    ELSE LET k == CHOOSE p \in positions : TRUE
         IN  HairCount(preds[k]) + SumHairCounts(preds, positions \ {k})

C12_HairCountPositive ==
    Called("calculate_follicular_metrics") =>
        /\ \A k \in 1..Len(args.predictions) :
               HairCount(args.predictions[k]) >= 1
        /\ ret.total_hairs >= ret.total_follicular_units
        /\ ret.total_follicular_units >= 0

---------------------------------------------------------------------------
(* Properties of calculate_combined_metrics and of thickness_metrics. *)

\* calculate_combined_metrics went past the early return and reached its
\* return statement: locals holds its local variables, ret the scorecard.
Scored == Called("calculate_combined_metrics") /\ locals # <<>>

\* Rescaling applies.
Rescaled == locals.total_thickness_detections_raw > 0 /\ locals.total_hairs > 0

\* The number of detections labelled strong, medium or weak.
Recognized(thickness) ==
    Cardinality({k \in 1..Len(thickness) :
        DisplayName(thickness[k]) \in {strong, medium, weak}})

\* C13: the thickness total_detections that is reported, and that divides
\* every category count into its share, is the number of detections labelled
\* strong, medium or weak, not the length of the list: a detection with another
\* label changes no share.
C13_TotalIsSumOfRecognized ==
    /\ Called("thickness_metrics") =>
           ret.total_detections = ret.strong + ret.medium + ret.weak
    /\ (Scored /\ Rescaled) =>
           LET recognized == Recognized(args.thickness_predictions)
               Share(raw) == Mul(Frac(raw, recognized), Num(locals.total_hairs))
           IN  recognized > 0 =>
                   /\ locals.strong_hairs = Share(locals.strong_hairs_raw)
                   /\ locals.medium_hairs = Share(locals.medium_hairs_raw)
                   /\ locals.weak_hairs = Share(locals.weak_hairs_raw)

\* C14: whenever rescaling applies, the effective strong, medium and weak
\* counts sum to total_hairs, which is also the total used in the later
\* divisions, whatever labels the thickness list holds.
C14_EffectiveCountsSumToTotalHairs ==
    (Scored /\ Rescaled) =>
        /\ Add(Add(locals.strong_hairs, locals.medium_hairs), locals.weak_hairs)
               = Num(locals.total_hairs)
        /\ locals.total_thickness_detections = locals.total_hairs

\* The harmonic mean of two positive fractions.
HarmonicMean(a, b) == Div(Num(2), Add(Div(Num(1), a), Div(Num(1), b)))

\* C15: the overall hair score is the harmonic mean of
\* hair_caliber_index_percentage / 100 and ehd_percentage / 100, times 100,
\* only when both are strictly positive; otherwise it is exactly 0.0, and the
\* call never ends in a division by zero.
C15_HarmonicMeanOnlyOfPositives ==
    /\ Scored =>
           LET h == Div(locals.hair_caliber_index_percentage, Num(100))
               e == Div(locals.ehd_percentage, Num(100))
           IN  locals.overall_hair_score
                   = IF Positive(h) /\ Positive(e)
                     THEN Mul(HarmonicMean(h, e), Num(100))
                     ELSE Zero
    /\ (pc = "raised" /\ fn = "calculate_combined_metrics") =>
           RaisesKeyError(args.thickness_predictions)

\* Hairs were counted and thickness detections given, yet the caliber index
\* is 0: the reciprocals would be of zero, and the score is 0.0.
C15_Witness ==
    /\ Scored
    /\ Rescaled
    /\ locals.hci_normalized = Zero
    /\ locals.ehd_normalized = Zero
    /\ locals.overall_hair_score = Zero
    /\ ret.overall_hair_score = Zero

\* total_hairs of the density model for a density list.
DensityHairs(density) ==
    IF density = <<>> THEN 0
    ELSE calculate_follicular_metrics(density).total_hairs

\* The results that depend on the effective strong, medium and weak counts.
ThicknessResults ==
    {"terminal_to_vellus_ratio", "percent_thick_hairs", "hair_caliber_index",
     "hair_caliber_index_percentage", "average_thickness_score",
     "effective_hair_density", "ehd_percentage", "overall_hair_score"}

\* C16: if the raw thickness total is 0 or the density total_hairs is 0, the
\* effective strong, medium and weak counts are 0 and the scorecard holds 0 for
\* every result that depends on them.
C16_ZeroWithoutRescaling ==
    (/\ Called("calculate_combined_metrics")
     /\ \/ Len(args.thickness_predictions) = 0
        \/ DensityHairs(args.density_predictions) = 0) =>
        /\ \A name \in ThicknessResults :
               /\ name \in DOMAIN ret
               /\ ret[name] = IF name = "hair_caliber_index" THEN 0 ELSE Zero
        /\ locals # <<>> =>
               /\ locals.strong_hairs = Zero
               /\ locals.medium_hairs = Zero
               /\ locals.weak_hairs = Zero

\* The six banded metrics: <<value field, band field>>.
Banded ==
    {<<"overall_hair_score", "ohs_color">>,
     <<"hair_caliber_index_percentage", "hci_color">>,
     <<"ehd_percentage", "ehd_color">>,
     <<"hairs_per_cm2", "hairs_per_cm2_color">>,
     <<"terminal_to_vellus_ratio", "terminal_to_vellus_color">>,
     <<"percent_thick_hairs", "thick_hair_color">>}

\* The fields of the scorecard built at the return statement.
ScorecardFields ==
    {"terminal_to_vellus_ratio", "terminal_to_vellus_color",
     "percent_thick_hairs", "thick_hair_color", "hair_caliber_index",
     "hair_caliber_index_percentage", "hci_color", "average_thickness_score",
     "hairs_per_fu", "hairs_per_cm2", "hairs_per_cm2_color",
     "effective_hair_density", "ehd_percentage", "ehd_color",
     "overall_hair_score", "ohs_interpretation", "ohs_color"}

\* C17: the scorecard has the same fixed set of fields for every input, both
\* lists empty included: each of the six banded metrics is present together
\* with its band, and every band is one of success, warning, danger.
C17_SameFieldsForEveryInput ==
    Called("calculate_combined_metrics") =>
        /\ DOMAIN ret = ScorecardFields
        /\ \A b \in Banded :
               /\ b[1] \in DOMAIN ret
               /\ b[2] \in DOMAIN ret
               /\ ret[b[2]] \in {"success", "warning", "danger"}

\* C18: ehd_percentage never exceeds 100: the effective hair density is at
\* most the fixed maximum 220 for every pair of detection lists.
C18_EhdAtMostMaximum ==
    Scored =>
        /\ ~Less(Num(220), locals.effective_hair_density)
        /\ ~Less(Num(100), locals.ehd_percentage)
        /\ ~Less(Num(100), ret.ehd_percentage)

\* The cut points of the banded metrics:
\* <<value, band, lowest success value, lowest warning value>>.
CutPoints ==
    {<<"overall_hair_score", "ohs_color", 80, 50>>,
     <<"hair_caliber_index_percentage", "hci_color", 80, 50>>,
     <<"ehd_percentage", "ehd_color", 80, 50>>,
     <<"hairs_per_cm2", "hairs_per_cm2_color", 150, 110>>,
     <<"terminal_to_vellus_ratio", "terminal_to_vellus_color", 7, 4>>,
     <<"percent_thick_hairs", "thick_hair_color", 90, 75>>}

\* value >= k for a fraction and an integer
Reaches(value, k) == value[1] >= k * value[2]

\* a < b for fractions, by integer parts and then the remainders' reciprocals,
\* so that no product of two denominators is formed.
RECURSIVE Below(_, _)
Below(a, b) ==
    LET qa == a[1] \div a[2]
        qb == b[1] \div b[2]
        ra == a[1] - qa * a[2]
        rb == b[1] - qb * b[2]
    IN  IF qa # qb THEN qa < qb
        ELSE IF rb = 0 THEN FALSE
        ELSE IF ra = 0 THEN TRUE
        ELSE Below(<<b[2], rb>>, <<a[2], ra>>)

Rank(band) == IF band = "danger" THEN 0 ELSE IF band = "warning" THEN 1 ELSE 2

\* C19: each banded metric gets exactly one band from its two cut points
\* applied with >=: success from the upper one on, warning from the lower one
\* up to the upper one, danger below; and of two metrics with the same cut
\* points the one with the larger value never has the worse band.
C19_BandFromCutPoints ==
    Scored =>
        /\ \A c \in CutPoints :
               LET value == locals[c[1]]
                   band == ret[c[2]]
               IN  /\ band = "success" <=> Reaches(value, c[3])
                   /\ band = "warning" <=>
                          (Reaches(value, c[4]) /\ ~Reaches(value, c[3]))
                   /\ band = "danger" <=> ~Reaches(value, c[4])
        /\ \A c1, c2 \in CutPoints :
               (/\ c1[3] = c2[3]
                /\ c1[4] = c2[4]
                /\ ~Below(locals[c2[1]], locals[c1[1]])) =>
                   Rank(ret[c1[2]]) <= Rank(ret[c2[2]])

\* A value exactly at a cut point gets the better band, and the scorecard
\* shows all three bands.
C19_Witness ==
    /\ Scored
    /\ locals.percent_thick_hairs = Num(75)
    /\ ret.thick_hair_color = "warning"
    /\ ret.terminal_to_vellus_color = "success"
    /\ ret.hairs_per_cm2_color = "danger"

\* C20: whenever the effective strong count is 0, because no detection is
\* labelled strong or because nothing is rescaled, terminal_to_vellus_ratio
\* and percent_thick_hairs are 0.0 whatever the weak and medium counts are,
\* and the call returns normally.
C20_ZeroWithoutStrongHairs ==
    /\ (Scored /\ locals.strong_hairs = Zero) =>
           /\ locals.terminal_to_vellus_ratio = Zero
           /\ locals.percent_thick_hairs = Zero
           /\ ret.terminal_to_vellus_ratio = Zero
           /\ ret.percent_thick_hairs = Zero
    /\ (Called("calculate_combined_metrics") /\ locals = <<>>) =>
           /\ ret.terminal_to_vellus_ratio = Zero
           /\ ret.percent_thick_hairs = Zero
    /\ (/\ pc = "raised"
        /\ fn = "calculate_combined_metrics"
        /\ ~RaisesKeyError(args.thickness_predictions)) =>
           CountLabel(args.thickness_predictions, strong) > 0

\* Rescaling applies, weak and medium hairs are there, strong ones are not.
C20_Witness ==
    /\ Scored
    /\ Rescaled
    /\ locals.strong_hairs = Zero
    /\ Positive(locals.weak_hairs)
    /\ Positive(locals.medium_hairs)
    /\ ret.terminal_to_vellus_ratio = Zero
    /\ ret.percent_thick_hairs = Zero

---------------------------------------------------------------------------
(* The three core functions together: a call of apply_nms, of              *)
(* calculate_follicular_metrics or of calculate_combined_metrics.          *)

InitCore == Init \/ InitMetrics

NextCore ==
    \/ NmsEnter
    \/ NmsScan
    \/ NmsReturn
    \/ CallFollicularMetrics
    \/ CallCombinedMetrics
    \/ CallThicknessMetrics

SpecCore == InitCore /\ [][NextCore]_vars

---------------------------------------------------------------------------
(* Properties of the core functions together, checked under SpecCore. *)

\* Every detection of the list carries a label, as a Detection of the data
\* model and every dict the upload handler builds does.
Labelled(preds) == \A k \in 1..Len(preds) : "displayName" \in DOMAIN preds[k]

\* The float results of calculate_follicular_metrics.
FollicularRatios == {"follicular_density_per_cm2", "average_hair_per_unit"}

IsZero(scorecard, name) ==
    IF name = "hair_caliber_index" THEN scorecard[name] = 0
    ELSE scorecard[name] = Zero

\* C22: an empty detection list gives empty or zeroed output: apply_nms([])
\* is the empty list; calculate_follicular_metrics([]) has 0 units, 0 hairs,
\* density 0, average hairs per unit 0 and 0 for both unit counts;
\* calculate_combined_metrics([], []) has 0 for every numeric result.
C22_EmptyListGivesZeros ==
    /\ Returned /\ predictions = <<>> => result = <<>>
    /\ Called("calculate_follicular_metrics") /\ args.predictions = <<>> =>
           /\ ret.total_follicular_units = 0
           /\ ret.total_hairs = 0
           /\ ret.follicular_density_per_cm2 = Zero
           /\ ret.average_hair_per_unit = Zero
           /\ ret.fu_with_one_hair = 0
           /\ ret.fu_with_multiple_hairs = 0
    /\ ( /\ Called("calculate_combined_metrics")
         /\ BothEmpty(args.density_predictions, args.thickness_predictions) )
       => \A name \in DOMAIN ret : IsZero(ret, name)

\* calculate_follicular_metrics has returned for the empty list.
C22_Witness ==
    /\ Called("calculate_follicular_metrics")
    /\ args.predictions = <<>>
    /\ ret.class_distribution = <<>>

---------------------------------------------------------------------------
(* Properties of the rescaling, checked under SpecMetrics. *)

\* Every thickness detection is labelled strong, medium or weak.
AllRecognized(thickness) == Recognized(thickness) = Len(thickness)

\* C23: when the raw thickness total equals total_hairs and every thickness
\* label is one of strong, medium, weak, the rescaling changes nothing: the
\* effective counts are the raw counts and hair_caliber_index is the whole
\* part of strong * 3 + medium * 1.5 + weak * 1.
C23_RescalingIsNoOpForEqualTotals ==
    ( /\ Scored
      /\ Rescaled
      /\ locals.total_thickness_detections_raw = locals.total_hairs
      /\ AllRecognized(args.thickness_predictions) )
    => /\ locals.strong_hairs_float = FloatOf(locals.strong_hairs_raw)
       /\ locals.medium_hairs_float = FloatOf(locals.medium_hairs_raw)
       /\ locals.weak_hairs_float = FloatOf(locals.weak_hairs_raw)
       /\ locals.hair_caliber_index =
              IntOfFloat(Add(Add(Mul(Num(locals.strong_hairs_raw), Num(3)),
                                 Mul(Num(locals.medium_hairs_raw), <<3, 2>>)),
                             Mul(Num(locals.weak_hairs_raw), Num(1))))

---------------------------------------------------------------------------
(* Properties of the scan of apply_nms, checked under Spec. *)

\* How often detection d occurs in a list.
Occurrences(seq, d) == Cardinality({k \in 1..Len(seq) : seq[k] = d})

\* Detection d conflicts with a detection of the list: one of class priority
\* at least its own whose padded IoU with d is above iou_threshold.
ConflictsWith(d, accepted) ==
    \E k \in 1..Len(accepted) :
        /\ ClassPriority(DisplayName(accepted[k])) >= ClassPriority(DisplayName(d))
        /\ FracGT(PaddedIoUOf(d, accepted[k]), iou_threshold)

\* One iteration of the scan has run: the candidate was kept or dropped.
Visited == pc = "scan" /\ i <= Len(sorted_predictions) /\ i' = i + 1

\* C24: before the truncation, every detection that is not among the accepted
\* ones conflicts with an accepted detection (class priority at least its
\* own, padded IoU above iou_threshold); and a candidate that has no such
\* conflict with the accepted list is accepted.
C24_DroppedOnlyForConflict ==
    /\ [](Returned =>
            \A k \in 1..Len(predictions) :
                Occurrences(filtered_predictions, predictions[k])
                        < Occurrences(predictions, predictions[k])
                    => ConflictsWith(predictions[k], filtered_predictions))
    /\ [][Visited =>
            ( ~ConflictsWith(sorted_predictions[i], filtered_predictions)
              => /\ filtered_predictions' # <<>>
                 /\ filtered_predictions'[Len(filtered_predictions')]
                        = sorted_predictions[i]
                 /\ Len(filtered_predictions') > Len(filtered_predictions) )]_vars

\* The padded box of a detection, as the scan compares it.
PaddedBox(d) == apply_padding_to_bbox(Bbox(d), padding_factor)

\* The padded boxes of two detections share a region of positive area.
PositiveOverlap(a, b) ==
    /\ Max(PaddedBox(a)[1], PaddedBox(b)[1]) < Min(PaddedBox(a)[2], PaddedBox(b)[2])
    /\ Max(PaddedBox(a)[3], PaddedBox(b)[3]) < Min(PaddedBox(a)[4], PaddedBox(b)[4])

\* The padded boxes of two detections share a piece of an edge and no more.
OnlyTouch(a, b) ==
    /\ Max(PaddedBox(a)[1], PaddedBox(b)[1]) = Min(PaddedBox(a)[2], PaddedBox(b)[2])
    /\ Max(PaddedBox(a)[3], PaddedBox(b)[3]) < Min(PaddedBox(a)[4], PaddedBox(b)[4])

\* C25: a candidate whose padded IoU with every accepted detection is at
\* most iou_threshold is kept; so at threshold 0.0 two detections are both
\* retained when their padded boxes share no positive area (they only touch)
\* and one of them is suppressed when the boxes do.
C25_SuppressedOnlyAboveThreshold ==
    /\ [][Visited =>
            ( (\A k \in 1..Len(filtered_predictions) :
                   FracLE(PaddedIoUOf(sorted_predictions[i],
                                      filtered_predictions[k]), iou_threshold))
              => filtered_predictions'
                     = Append(filtered_predictions, sorted_predictions[i]) )]_vars
    /\ []( (Returned /\ Len(predictions) = 2 /\ iou_threshold = 0)
           => IF PositiveOverlap(predictions[1], predictions[2])
              THEN Len(filtered_predictions) = 1
              ELSE filtered_predictions = sorted_predictions )

\* At threshold 0.0 two detections whose padded boxes only touch have both
\* been accepted.
C25_Witness ==
    /\ Returned
    /\ iou_threshold = 0
    /\ Len(predictions) = 2
    /\ OnlyTouch(predictions[1], predictions[2])
    /\ Len(filtered_predictions) = 2

\* s is the beginning of t.
IsPrefix(s, t) == Len(s) <= Len(t) /\ SubSeq(t, 1, Len(s)) = s

\* The class number by which the sort orders the candidates; it is the
\* number the scan compares (a label that does not start with "class" has 0).
SortedClass(pred) == -sort_key(pred)[1]

\* C26: during the scan the accepted list only grows: the candidates are
\* visited in descending order of their class number, so every accepted
\* detection has a class number at least that of the current candidate, and
\* no accepted detection is removed before the truncation.
C26_AcceptedListOnlyGrows ==
    /\ [][IsPrefix(filtered_predictions, filtered_predictions')]_vars
    /\ [](pc = "scan" =>
            /\ \A a \in 1..Len(sorted_predictions) :
               \A b \in 1..Len(sorted_predictions) :
                   a < b => SortedClass(sorted_predictions[a])
                                >= SortedClass(sorted_predictions[b])
            /\ i <= Len(sorted_predictions) =>
                   \A k \in 1..Len(filtered_predictions) :
                       /\ SortedClass(filtered_predictions[k])
                              >= SortedClass(sorted_predictions[i])
                       /\ get_class_number(DisplayName(filtered_predictions[k]))
                              >= get_class_number(DisplayName(sorted_predictions[i])))

\* A detection of the higher class number, given second, was visited first
\* and accepted; the overlapping detection given first came after it and was
\* dropped, and the accepted one is still there at the return.
C26_Witness ==
    /\ Returned
    /\ Len(predictions) = 2
    /\ SortedClass(predictions[1]) < SortedClass(predictions[2])
    /\ PositiveOverlap(predictions[1], predictions[2])
    /\ filtered_predictions = <<predictions[2]>>

\* C27: apply_nms applied, with the same iou_threshold, padding_factor and
\* max_predictions, to the list it returned returns that list, in the same
\* order.
C27_Idempotent ==
    Returned =>
        /\ result = apply_nms(predictions, iou_threshold, padding_factor,
                              max_predictions)
        /\ apply_nms(result, iou_threshold, padding_factor, max_predictions)
               = result

\* apply_nms has returned two detections equal in class and confidence after
\* dropping none, for an input it had to reorder.
C27_Witness ==
    /\ Returned
    /\ Len(result) = 2
    /\ sort_key(result[1]) = sort_key(result[2])
    /\ result[1] # result[2]
    /\ apply_nms(result, iou_threshold, padding_factor, max_predictions)
           = result

---------------------------------------------------------------------------
(* The bands against the reported values. *)

\* C28: for each banded metric of the scorecard, the metric's cut points
\* applied to the rounded value that calculate_combined_metrics reports give
\* the band it reports.
C28_BandAgreesWithReportedValue ==
    Scored =>
        \A c \in CutPoints : Band(ret[c[1]], c[3], c[4]) = ret[c[2]]

---------------------------------------------------------------------------
(* The range of calculate_iou. *)

Unordered(box) == box[1] > box[2] \/ box[3] > box[4]

\* C29: calculate_iou returns a value in [0, 1] for every pair of boxes,
\* boxes with xMin > xMax or yMin > yMax included.
C29_IouInUnitInterval ==
    Called("calculate_iou") =>
        /\ ret[2] > 0
        /\ 0 <= ret[1]
        /\ ret[1] <= ret[2]
        /\ (Unordered(args.box1) \/ Unordered(args.box2)) => ret = Zero

\* An unordered box against an ordered box of positive area that covers its
\* corners.
C29_Witness ==
    /\ Called("calculate_iou")
    /\ args.box1[1] > args.box1[2]
    /\ args.box1[3] > args.box1[4]
    /\ PositiveArea(args.box2)
    /\ args.box2[1] <= args.box1[2]
    /\ args.box1[1] <= args.box2[2]
    /\ args.box2[3] <= args.box1[4]
    /\ args.box1[3] <= args.box2[4]
    /\ ret = Zero

---------------------------------------------------------------------------
(* apply_nms as a selection. *)

\* Every detection of the list is a detection of the input, as given, and
\* is in the list no more often than in the input.
SelectedFrom(list, input) ==
    \A k \in 1..Len(list) :
        /\ \E n \in 1..Len(input) : input[n] = list[k]
        /\ Occurrences(list, list[k]) <= Occurrences(input, list[k])

\* C30: apply_nms only selects: every detection it returns is one of the
\* input detections with its bbox, label and confidence as given, none is
\* returned more often than it occurs in the input, and the input list is
\* left unchanged.
C30_OnlySelects ==
    /\ [](SelectedFrom(filtered_predictions, predictions))
    /\ [](Returned => SelectedFrom(result, predictions))
    /\ [][predictions' = predictions]_vars

\* With padding, an input that the sort reorders: its second detection is
\* returned first, with the bbox it came with.
C30_Witness ==
    /\ Returned
    /\ padding_factor > 0
    /\ Len(predictions) = 2
    /\ sorted(predictions) # predictions
    /\ Len(result) >= 1
    /\ result[1] = predictions[2]
    /\ predictions[1] # predictions[2]
    /\ apply_padding_to_bbox(Bbox(result[1]), padding_factor)
           # Bbox(result[1])

====
